---- MODULE Spec2Model ----
(***************************************************************************)
(* Credential lifecycle of the vinyl player: the API routes (search,       *)
(* playlists, user, playback GET/PUT, OAuth callback), the token helper    *)
(* SpotifyAuth.getValidAccessToken / refreshAccessToken, the browser's     *)
(* cookie jar that serves as the session store, and the external service.  *)
(* Every request is a process that runs from one network await to the      *)
(* next; the clock may advance only while a request awaits the network or  *)
(* while its response travels back to the browser.                         *)
(***************************************************************************)
EXTENDS Integers, Sequences, FiniteSets, TLC

\* ------------------------------------------------------------------ bounds
MaxReq == 2        \* request slots that may be in flight together
MaxTicks == 4      \* the clock stops after this many ticks
MaxIssued == 3     \* credentials the token endpoint issues in one run
MaxLife == 1       \* the service reports lifetimes of 1..MaxLife seconds

TickMs == 700      \* one clock tick, in milliseconds; it does not divide a second,
                   \* so that instants fall before, on and after the expiries

Reqs == 1..MaxReq
Solo == {1}          \* the slot of a session that sends one request at a time
Lifetimes == 1..MaxLife
PageTicks == 8     \* clock ticks of a page session (beyond one polling interval)
MaxTimers == 1     \* delayed polls pending at once
MaxDevice == 1     \* changes of the remote device's state
OverlapTicks == 2  \* clock ticks of a session whose fetches overlap

\* ------------------------------------------------------------------ values
\* Every value is a record with a kind, so that any two can be compared.
Null == [kind |-> "null"]
Undefined == [kind |-> "undefined"]
Absent == [kind |-> "absent"]

UserTok(n) == [kind |-> "user", n |-> n]
SvcTok(n) == [kind |-> "svc", n |-> n]
RefreshTok(n) == [kind |-> "refresh", n |-> n]

\* A JavaScript number: an integer or NaN.
Num(v) == [kind |-> "num", nan |-> FALSE, v |-> v]
NaN == [kind |-> "num", nan |-> TRUE, v |-> 0]
NumAdd(a, b) == IF a.nan \/ b.nan THEN NaN ELSE Num(a.v + b.v)
NumSub(a, b) == IF a.nan \/ b.nan THEN NaN ELSE Num(a.v - b.v)
NumMul(a, b) == IF a.nan \/ b.nan THEN NaN ELSE Num(a.v * b.v)
NumLt(a, b) == ~a.nan /\ ~b.nan /\ a.v < b.v
\* Math.floor(x / 1000)
FloorDiv1000(a) == IF a.nan THEN NaN ELSE Num(a.v \div 1000)
\* undefined * 1000 is NaN
ToNumber(x) == IF x.kind = "num" THEN x ELSE NaN

\* A string is a sequence of characters.
Str(s) == [kind |-> "str", s |-> s]
EmptyStr == Str(<<>>)
DigitChar == <<"0", "1", "2", "3", "4", "5", "6", "7", "8", "9">>
IsDigit(c) == \E i \in 1..10 : DigitChar[i] = c
DigitVal(c) == (CHOOSE i \in 1..10 : DigitChar[i] = c) - 1

RECURSIVE NatToString(_)
NatToString(n) ==
  IF n < 10 THEN <<DigitChar[n + 1]>>
  ELSE NatToString(n \div 10) \o <<DigitChar[(n % 10) + 1]>>

\* Number.prototype.toString
NumToString(x) ==
  IF x.nan THEN Str(<<"N", "a", "N">>)
  ELSE IF x.v < 0 THEN Str(<<"-">> \o NatToString(-x.v))
  ELSE Str(NatToString(x.v))

RECURSIVE ParseDigits(_, _, _)
ParseDigits(s, i, acc) ==
  IF i > Len(s) \/ ~IsDigit(s[i]) THEN acc
  ELSE ParseDigits(s, i + 1, acc * 10 + DigitVal(s[i]))

\* parseInt(string): an optional sign, then the longest run of digits; NaN
\* when no digit follows.
ParseInt(x) ==
  IF x.kind # "str" THEN NaN
  ELSE LET s == x.s
           neg == Len(s) >= 1 /\ s[1] = "-"
           from == IF neg THEN 2 ELSE 1
       IN IF from > Len(s) \/ ~IsDigit(s[from]) THEN NaN
          ELSE IF neg THEN Num(-ParseDigits(s, from, 0))
          ELSE Num(ParseDigits(s, from, 0))

\* JavaScript truthiness of a cookie value or a string.
Truthy(v) == v # Absent /\ v # Undefined /\ v # Null /\ v # EmptyStr

\* ------------------------------------------------------------------ state
VARIABLES
  now,      \* Date.now(), in milliseconds
  env,      \* process.env: clientId, clientSecret, redirectUri
  jar,      \* the browser's cookie jar (the session store)
  req,      \* the requests in flight, one record per slot
  issued,   \* credentials issued so far by the token endpoint
  svcUntil, \* expiry of the service credential obtained last, 0 when none is live
  page,     \* the Home component: its state, its timers and its fetches in flight
  device    \* the remote device: the item it plays, numbered by its changes

vars == <<now, env, jar, req, issued, svcUntil, page, device>>

\* ------------------------------------------------------------- environment
EnvSet(x) == x # ""
ClientIds == {"", "your_actual_client_id_here", "client-id"}
ClientSecrets == {"", "client-secret"}
RedirectUris == {"", "http://localhost/callback"}

\* ---------------------------------------------------------------- cookies
RefreshCookieMaxAge == 2592000   \* 60 * 60 * 24 * 30 seconds

NoCookie == [value |-> Absent, until |-> 0, lasting |-> FALSE]
EmptyJar == [access |-> NoCookie, refresh |-> NoCookie, expires |-> NoCookie]
CookieNames == {"access", "refresh", "expires"}

\* A cookie is kept until its Max-Age has passed; a session cookie, and one
\* whose Max-Age ends after the last instant of the clock, lasts.
CookieLive(c, t) == c.value # Absent /\ (c.lasting \/ t < c.until)

\* The value a request carries for one cookie (cookieStore.get(name)?.value).
CookieValue(c, t) == IF CookieLive(c, t) THEN c.value ELSE Undefined

\* response.cookies.set(name, value, {maxAge}) as the browser stores it: an
\* undefined value is sent as the empty string, a Max-Age that is no number
\* is ignored (session cookie), a Max-Age of zero or less removes the cookie.
SetCookie(name, value, maxAge) == [name |-> name, value |-> value, maxAge |-> maxAge]

StoreCookie(sc, t) ==
  LET v == IF sc.value = Undefined THEN EmptyStr ELSE sc.value
  IN IF sc.maxAge.nan THEN [value |-> v, until |-> 0, lasting |-> TRUE]
     ELSE IF sc.maxAge.v <= 0 THEN NoCookie
     ELSE IF sc.maxAge.v > (MaxTicks * TickMs) \div 1000 + 1
     THEN [value |-> v, until |-> 0, lasting |-> TRUE]
     ELSE [value |-> v, until |-> t + sc.maxAge.v * 1000, lasting |-> FALSE]

RECURSIVE StoreAll(_, _, _)
StoreAll(j, cs, t) ==
  IF cs = <<>> THEN j
  ELSE StoreAll([j EXCEPT ![Head(cs).name] = StoreCookie(Head(cs), t)], Tail(cs), t)

PurgeExpired(j, t) ==
  [n \in CookieNames |-> IF CookieLive(j[n], t) THEN j[n] ELSE NoCookie]

\* ------------------------------------------------------- external service
\* What the network hands to axios: a response with a status, or no response.
Response(status, data) == [kind |-> "response", status |-> status, data |-> data]
NetworkError == [kind |-> "network", status |-> 0, data |-> Undefined]

TokenData(access, expiresIn, refresh) ==
  [kind |-> "tokenData", access_token |-> access, expires_in |-> expiresIn,
   refresh_token |-> refresh]

\* The token endpoint's answers to one grant. A 2xx answer issues credential
\* number n; it may come back without one of its fields.
TokenOutcomes(grant, n) ==
  LET access == IF grant = "client_credentials" THEN SvcTok(n) ELSE UserTok(n)
      refresh == IF grant = "client_credentials" THEN Undefined ELSE RefreshTok(n)
  IN {Response(200, TokenData(access, Num(l), refresh)) : l \in Lifetimes}
     \cup {Response(200, TokenData(Undefined, Num(1), refresh)),
           Response(200, TokenData(access, Undefined, refresh)),
           Response(400, Undefined), Response(500, Undefined), NetworkError}

Issues(out) == out.kind = "response" /\ out.status = 200

\* The Web API's answers to one call.
ApiStatuses == {200, 204, 401, 403, 404, 429, 500}
ApiOutcomes == {Response(s, Undefined) : s \in ApiStatuses} \cup {NetworkError}

\* axios resolves on a 2xx status and rejects otherwise (validateStatus).
AxiosResolves(out) == out.kind = "response" /\ out.status >= 200 /\ out.status < 300

\* --------------------------------------------------------------- requests
Call(endpoint, bearer, t) ==
  [endpoint |-> endpoint, grant |-> "", bearer |-> bearer, refresh |-> Undefined,
   sentAt |-> t, out |-> Null, cached |-> FALSE]
TokenCall(grant, refresh, t, cached) ==
  [endpoint |-> "token", grant |-> grant, bearer |-> Undefined, refresh |-> refresh,
   sentAt |-> t, out |-> Null, cached |-> cached]

NoInput == [q |-> FALSE, code |-> FALSE, error |-> FALSE, action |-> "",
            trackUri |-> FALSE, volumePercent |-> FALSE]

IdleReq ==
  [pc |-> "idle", route |-> "none", input |-> NoInput,
   tokens |-> Null, resolvedAt |-> 0, tokenAt |-> 0, tokenResult |-> Null,
   calls |-> <<>>, playback |-> Undefined, resp |-> Null]

Respond(rq, status, error, payload, cookies) ==
  [rq EXCEPT !.pc = "done",
             !.resp = [status |-> status, error |-> error, payload |-> payload,
                       cookies |-> cookies]]

\* The call is sent and the handler awaits its answer.
Await(rq, pc, call) == [rq EXCEPT !.pc = pc, !.calls = Append(@, call)]
AwaitAll(rq, pc, calls) == [rq EXCEPT !.pc = pc, !.calls = @ \o calls]

\* The answer to the calls that were awaited is recorded with them.
Answered(rq, out) ==
  [rq EXCEPT !.calls = [i \in DOMAIN @ |->
                          IF @[i].out = Null THEN [@[i] EXCEPT !.out = out] ELSE @[i]]]

TokenCalls(rq, grant) ==
  {i \in DOMAIN rq.calls : rq.calls[i].endpoint = "token" /\ rq.calls[i].grant = grant}
ApiCalls(rq) == {i \in DOMAIN rq.calls : rq.calls[i].endpoint # "token"}

\* ------------------------------------------------------------ SpotifyAuth
ConfigMissing(e) == ~EnvSet(e.clientId) \/ ~EnvSet(e.clientSecret)

Tokens(access, refresh, expiresAt) ==
  [kind |-> "tokens", access_token |-> access, refresh_token |-> refresh,
   expires_at |-> expiresAt]

TokenResult(access, updated) ==
  [kind |-> "tokenResult", accessToken |-> access, updatedTokens |-> updated]

Returned(v) == [kind |-> "return", value |-> v]
Thrown(message, axios, status) ==
  [kind |-> "throw", message |-> message, axios |-> axios, status |-> status]
Pending(call) == [kind |-> "await", call |-> call]

\* refreshAccessToken up to its await: throws when the application
\* credentials are missing, else posts the refresh grant.
RefreshAccessTokenCall(refreshToken, e, t) ==
  IF ConfigMissing(e) THEN Thrown("Spotify credentials not configured", FALSE, 0)
  ELSE Pending(TokenCall("refresh_token", refreshToken, t, FALSE))

\* (a variant for C5: the pair takes the refresh token the answer carries)
RefreshAccessTokenResume_Rotated(refreshToken, out, t) ==
  IF AxiosResolves(out)
  THEN Returned(Tokens(out.data.access_token, out.data.refresh_token,
                       NumAdd(Num(t), NumMul(ToNumber(out.data.expires_in), Num(1000)))))
  ELSE Thrown("Failed to refresh access token", FALSE, 0)

\* refreshAccessToken from the answer on: the new pair keeps the refresh
\* token it was called with, and expires expires_in seconds from now.
RefreshAccessTokenResume(refreshToken, out, t) ==
  IF AxiosResolves(out)
  THEN Returned(Tokens(out.data.access_token, refreshToken,
                       NumAdd(Num(t), NumMul(ToNumber(out.data.expires_in), Num(1000)))))
  ELSE Thrown("Failed to refresh access token", FALSE, 0)

\* (a variant for C2: the expiry test is reversed)
GetValidAccessToken_Reversed(tokens, e, t) ==
  IF tokens = Null THEN Returned(Null)
  ELSE IF NumLt(tokens.expires_at, Num(t))
  THEN Returned(TokenResult(tokens.access_token, Undefined))
  ELSE LET c == RefreshAccessTokenCall(tokens.refresh_token, e, t)
       IN IF c.kind = "throw" THEN Returned(Null) ELSE c

\* getValidAccessToken up to its first await.
GetValidAccessToken(tokens, e, t) ==
  IF tokens = Null THEN Returned(Null)
  ELSE IF NumLt(Num(t), tokens.expires_at)
  THEN Returned(TokenResult(tokens.access_token, Undefined))
  ELSE LET c == RefreshAccessTokenCall(tokens.refresh_token, e, t)
       IN IF c.kind = "throw" THEN Returned(Null) ELSE c

\* (a variant for C3: the result carries the access of the pair it was given)
GetValidAccessTokenResume_Stale(tokens, out, t) ==
  LET n == RefreshAccessTokenResume(tokens.refresh_token, out, t)
  IN IF n.kind = "throw" THEN Null
     ELSE TokenResult(tokens.access_token, n.value)

\* getValidAccessToken from the refresh answer on.
GetValidAccessTokenResume(tokens, out, t) ==
  LET n == RefreshAccessTokenResume(tokens.refresh_token, out, t)
  IN IF n.kind = "throw" THEN Null
     ELSE TokenResult(n.value.access_token, n.value)

\* A library call that wraps axios: the data on a 2xx answer, else an Error
\* with the function's own message (the upstream status is dropped).
Wrapped(out, data, message) ==
  IF AxiosResolves(out) THEN Returned(data) ELSE Thrown(message, FALSE, 0)

\* getCurrentPlayback: response.data on a 2xx answer (the empty body of a
\* 204 is the empty string); the 204 test sits in the catch branch, which a
\* 2xx answer never enters.
PlaybackState(item) == [kind |-> "playback", item |-> item, is_playing |-> TRUE]
GetCurrentPlayback(out) ==
  IF AxiosResolves(out)
  THEN Returned(IF out.status = 204 THEN EmptyStr ELSE out.data)
  ELSE IF out.kind = "response" /\ out.status = 204 THEN Returned(Null)
  ELSE Thrown("Failed to get current playback", FALSE, 0)

\* (a variant for C17: the cookies live for the lifetime of a new login)
UpdatedCookies_FullLifetime(updated, t) ==
  <<SetCookie("access", updated.access_token, Num(MaxLife + 1)),
    SetCookie("expires", NumToString(updated.expires_at), Num(MaxLife + 1))>>

\* Cookies a route sets when the token was refreshed.
UpdatedCookies(updated, t) ==
  LET maxAge == FloorDiv1000(NumSub(updated.expires_at, Num(t)))
  IN <<SetCookie("access", updated.access_token, maxAge),
       SetCookie("expires", NumToString(updated.expires_at), maxAge)>>

CookiesFor(tokenResult, t) ==
  IF tokenResult.updatedTokens # Undefined
  THEN UpdatedCookies(tokenResult.updatedTokens, t) ELSE <<>>

\* (a variant for C19: the access and the refresh cookie are taken for one another)
ReadTokens_Swapped(j, t) ==
  LET a == CookieValue(j.access, t)
      r == CookieValue(j.refresh, t)
      x == CookieValue(j.expires, t)
  IN IF Truthy(a) /\ Truthy(r) /\ Truthy(x) THEN Tokens(r, a, ParseInt(x)) ELSE Null

\* The three cookies as the request carries them, and the pair read from them.
ReadTokens(j, t) ==
  LET a == CookieValue(j.access, t)
      r == CookieValue(j.refresh, t)
      x == CookieValue(j.expires, t)
  IN IF Truthy(a) /\ Truthy(r) /\ Truthy(x) THEN Tokens(a, r, ParseInt(x)) ELSE Null

\* ------------------------------------------------------------------ routes
\* error.message.includes(part), for the messages the code can raise.
MessageIncludes(message, part) ==
  message = "Spotify credentials not configured" /\ part = "credentials not configured"

AxiosError(out) ==
  Thrown("Request failed", TRUE, IF out.kind = "response" THEN out.status ELSE 0)

\* A route's context: process.env, Date.now(), and whether the service
\* credential obtained last is still unexpired.
Ctx(e, t, live) == [e |-> e, t |-> t, live |-> live]

\* ---- /api/playlists
PlaylistsCatch(rq, err) ==
  IF MessageIncludes(err.message, "credentials not configured")
  THEN Respond(rq, 503, err.message, Null, <<>>)
  ELSE Respond(rq, 500, "Failed to fetch playlists", Null, <<>>)

\* (a variant for C11: without a credential the call is sent all the same)
PlaylistsResolved_Guest(rq, c) ==
  IF rq.tokenResult = Null
  THEN Await(rq, "calling", Call("me/playlists", Undefined, c.t))
  ELSE Await(rq, "calling", Call("me/playlists", rq.tokenResult.accessToken, c.t))

\* after getValidAccessToken returned
PlaylistsResolved(rq, c) ==
  IF rq.tokenResult = Null
  THEN Respond(rq, 401, "Failed to get valid access token", Null, <<>>)
  ELSE Await(rq, "calling", Call("me/playlists", rq.tokenResult.accessToken, c.t))

PlaylistsAnswered(rq, out, c) ==
  LET v == Wrapped(out, [kind |-> "playlists"], "Failed to fetch user playlists")
  IN IF v.kind = "throw" THEN PlaylistsCatch(rq, v)
     ELSE Respond(rq, 200, "", v.value, CookiesFor(rq.tokenResult, c.t))

\* ---- /api/user
UserCatch(rq, err) ==
  IF MessageIncludes(err.message, "credentials not configured")
  THEN Respond(rq, 503, err.message, Null, <<>>)
  ELSE Respond(rq, 500, "Failed to fetch user data", Null, <<>>)

UserResolved(rq, c) ==
  IF rq.tokenResult = Null
  THEN Respond(rq, 401, "Failed to get valid access token", Null, <<>>)
  ELSE AwaitAll(rq, "calling",
                <<Call("me", rq.tokenResult.accessToken, c.t),
                  Call("me/tracks", rq.tokenResult.accessToken, c.t),
                  Call("me/player/recently-played", rq.tokenResult.accessToken, c.t)>>)

UserAnswered(rq, out, c) ==
  LET v == Wrapped(out, [kind |-> "user"], "Failed to fetch user profile")
  IN IF v.kind = "throw" THEN UserCatch(rq, v)
     ELSE Respond(rq, 200, "", v.value, CookiesFor(rq.tokenResult, c.t))

\* ---- /api/playback GET
PlaybackGetCatch(rq, err) ==
  Respond(rq, 500, "Failed to fetch playback state", Null, <<>>)

PlaybackGetResolved(rq, c) ==
  IF rq.tokenResult = Null
  THEN Respond(rq, 401, "Failed to get valid access token", Null, <<>>)
  ELSE Await(rq, "calling", Call("me/player", rq.tokenResult.accessToken, c.t))

PlaybackGetAnswered(rq, out, c) ==
  IF Len(rq.calls) = Cardinality(TokenCalls(rq, "refresh_token")) + 1
  THEN \* the answer to getCurrentPlayback; getAvailableDevices follows
       LET v == GetCurrentPlayback(out)
       IN IF v.kind = "throw" THEN PlaybackGetCatch(rq, v)
          ELSE Await([rq EXCEPT !.playback = v.value], "calling",
                     Call("me/player/devices", rq.tokenResult.accessToken, c.t))
  ELSE LET v == Wrapped(out, [kind |-> "devices"], "Failed to get available devices")
       IN IF v.kind = "throw" THEN PlaybackGetCatch(rq, v)
          ELSE Respond(rq, 200, "", [kind |-> "playbackView", playback |-> rq.playback,
                                     devices |-> v.value],
                       CookiesFor(rq.tokenResult, c.t))

\* ---- /api/playback PUT
PlaybackPutCatch(rq, err) ==
  IF MessageIncludes(err.message, "credentials not configured")
  THEN Respond(rq, 503, err.message, Null, <<>>)
  ELSE IF MessageIncludes(err.message, "Restriction violated")
  THEN Respond(rq, 403, "Playback not available on this device", Null, <<>>)
  ELSE IF MessageIncludes(err.message, "Device not found")
  THEN Respond(rq, 404, "No active Spotify device found", Null, <<>>)
  ELSE Respond(rq, 500, "Failed to control playback", Null, <<>>)

Actions == {"", "play", "pause", "next", "previous", "volume", "rewind"}
ControlEndpoint(action) ==
  CASE action = "play" -> "me/player/play"
    [] action = "pause" -> "me/player/pause"
    [] action = "next" -> "me/player/next"
    [] action = "previous" -> "me/player/previous"
    [] action = "volume" -> "me/player/volume"
ControlMessage(action) ==
  CASE action = "play" -> "Failed to start playback"
    [] action = "pause" -> "Failed to pause playback"
    [] action = "next" -> "Failed to skip to next track"
    [] action = "previous" -> "Failed to skip to previous track"
    [] action = "volume" -> "Failed to set volume"

PlaybackPutResolved(rq, c) ==
  LET in == rq.input
      send == Await(rq, "calling",
                    Call(ControlEndpoint(in.action), rq.tokenResult.accessToken, c.t))
  IN IF rq.tokenResult = Null
     THEN Respond(rq, 401, "Failed to get valid access token", Null, <<>>)
     ELSE IF in.action = "" THEN Respond(rq, 400, "Action is required", Null, <<>>)
     ELSE IF in.action = "play"
     THEN IF ~in.trackUri THEN Respond(rq, 400, "Track URI is required", Null, <<>>)
          ELSE send
     ELSE IF in.action \in {"pause", "next", "previous"} THEN send
     ELSE IF in.action = "volume"
     THEN IF ~in.volumePercent
          THEN Respond(rq, 400, "Volume percent is required", Null, <<>>)
          ELSE send
     ELSE Respond(rq, 400, "Invalid action", Null, <<>>)

PlaybackPutAnswered(rq, out, c) ==
  LET v == Wrapped(out, Undefined, ControlMessage(rq.input.action))
  IN IF v.kind = "throw" THEN PlaybackPutCatch(rq, v)
     ELSE Respond(rq, 200, "", [kind |-> "success"], CookiesFor(rq.tokenResult, c.t))

\* ---- /api/search
\* (a variant for C15: every rejected call counts as a failed authentication)
SearchCatch_AllAuth(rq, err) ==
  IF MessageIncludes(err.message, "credentials not configured")
  THEN Respond(rq, 503, err.message, Null, <<>>)
  ELSE IF err.axios /\ err.status # 0
  THEN Respond(rq, 401, "Authentication failed", Null, <<>>)
  ELSE Respond(rq, 500, "Failed to search tracks", Null, <<>>)

\* search GET: catch
SearchCatch(rq, err) ==
  IF MessageIncludes(err.message, "credentials not configured")
  THEN Respond(rq, 503, err.message, Null, <<>>)
  ELSE IF err.axios /\ err.status # 0
  THEN IF err.status = 401 THEN Respond(rq, 401, "Authentication failed", Null, <<>>)
       ELSE IF err.status = 429 THEN Respond(rq, 429, "Rate limit exceeded", Null, <<>>)
       ELSE IF err.status >= 500
       THEN Respond(rq, 502, "Spotify service is temporarily unavailable", Null, <<>>)
       ELSE Respond(rq, 500, "Failed to search tracks", Null, <<>>)
  ELSE Respond(rq, 500, "Failed to search tracks", Null, <<>>)

\* getSpotifyAccessToken up to its await: the client-credentials exchange
\* is posted on every call; nothing is kept from one call to the next.
GetSpotifyAccessTokenCall(c) ==
  IF ConfigMissing(c.e) THEN Thrown("Spotify credentials not configured", FALSE, 0)
  ELSE Pending(TokenCall("client_credentials", Undefined, c.t, c.live))

GetSpotifyAccessTokenResume(out) ==
  IF AxiosResolves(out) THEN Returned(out.data.access_token)
  ELSE Thrown("Failed to authenticate with Spotify", FALSE, 0)

UserSearch(rq) == rq.tokenResult # Null /\ rq.tokens # Null

\* (a variant for C13: a pair that was not refreshed is used as it is)
SearchResolved_Stale(rq, c) ==
  IF rq.tokens # Null
  THEN Await(rq, "calling",
             Call("search", IF rq.tokenResult # Null THEN rq.tokenResult.accessToken
                            ELSE rq.tokens.access_token, c.t))
  ELSE LET g == GetSpotifyAccessTokenCall(c)
       IN IF g.kind = "throw" THEN SearchCatch(rq, g)
          ELSE Await(rq, "authenticating", g.call)

\* search GET after getValidAccessToken returned
SearchResolved(rq, c) ==
  IF UserSearch(rq)
  THEN Await(rq, "calling", Call("search", rq.tokenResult.accessToken, c.t))
  ELSE LET g == GetSpotifyAccessTokenCall(c)
       IN IF g.kind = "throw" THEN SearchCatch(rq, g)
          ELSE Await(rq, "authenticating", g.call)

\* searchWithClientCredentials once the service credential arrived.
SearchAuthenticated(rq, out, c) ==
  LET g == GetSpotifyAccessTokenResume(out)
  IN IF g.kind = "throw" THEN SearchCatch(rq, g)
     ELSE Await(rq, "calling", Call("search", g.value, c.t))

\* The answer to the search call. An empty 2xx body has no tracks: reading
\* response.data.tracks.items raises a TypeError, which the route's catch
\* reports as 500.
SearchAnswered(rq, out, c) ==
  IF ~AxiosResolves(out) THEN SearchCatch(rq, AxiosError(out))
  ELSE IF out.status = 204
  THEN SearchCatch(rq, Thrown("Cannot read properties of undefined", FALSE, 0))
  ELSE IF UserSearch(rq)
  THEN Respond(rq, 200, "", [kind |-> "tracks", limit |-> 20],
               CookiesFor(rq.tokenResult, c.t))
  ELSE Respond(rq, 200, "", [kind |-> "tracks", limit |-> 10], <<>>)

\* ---- /api/auth/callback
Redirect(rq, to, cookies) == Respond(rq, 307, "", [kind |-> "redirect", to |-> to], cookies)

CallbackGET(rq, c) ==
  IF rq.input.error THEN Redirect(rq, "/?error=access_denied", <<>>)
  ELSE IF ~rq.input.code THEN Redirect(rq, "/?error=no_code", <<>>)
  ELSE IF ConfigMissing(c.e) \/ ~EnvSet(c.e.redirectUri)
  THEN Redirect(rq, "/?error=token_exchange", <<>>)
  ELSE Await(rq, "exchanging", TokenCall("authorization_code", Undefined, c.t, FALSE))

\* (a variant for C6: expires_in is added as milliseconds)
CallbackExchanged_Seconds(rq, out, c) ==
  IF ~AxiosResolves(out) THEN Redirect(rq, "/?error=token_exchange", <<>>)
  ELSE LET d == out.data
           expiresAt == NumAdd(Num(c.t), ToNumber(d.expires_in))
       IN Redirect(rq, "/",
                   <<SetCookie("access", d.access_token, ToNumber(d.expires_in)),
                     SetCookie("refresh", d.refresh_token, Num(RefreshCookieMaxAge)),
                     SetCookie("expires", NumToString(expiresAt), ToNumber(d.expires_in))>>)

\* the authorization-code grant was answered
CallbackExchanged(rq, out, c) ==
  IF ~AxiosResolves(out) THEN Redirect(rq, "/?error=token_exchange", <<>>)
  ELSE LET d == out.data
           expiresAt == NumAdd(Num(c.t), NumMul(ToNumber(d.expires_in), Num(1000)))
       IN Redirect(rq, "/",
                   <<SetCookie("access", d.access_token, ToNumber(d.expires_in)),
                     SetCookie("refresh", d.refresh_token, Num(RefreshCookieMaxAge)),
                     SetCookie("expires", NumToString(expiresAt), ToNumber(d.expires_in))>>)

\* ---- /api/auth/status
\* (a variant for C30: the refresh cookie alone makes the session authenticated)
AuthStatusGET_RefreshOnly(rq, j, c) ==
  LET a == CookieValue(j.access, c.t)
      r == CookieValue(j.refresh, c.t)
      x == CookieValue(j.expires, c.t)
  IN Respond(rq, 200, "",
             [kind |-> "authStatus",
              authenticated |-> Truthy(r),
              hasTokens |-> Truthy(a) /\ Truthy(r),
              expiresAt |-> IF Truthy(x) THEN ParseInt(x) ELSE Null],
             <<>>)

\* The body tells whether the cookies are there and when the access expires;
\* it holds none of the credentials.
AuthStatusGET(rq, j, c) ==
  LET a == CookieValue(j.access, c.t)
      r == CookieValue(j.refresh, c.t)
      x == CookieValue(j.expires, c.t)
  IN Respond(rq, 200, "",
             [kind |-> "authStatus",
              authenticated |-> Truthy(a) /\ Truthy(r) /\ Truthy(x),
              hasTokens |-> Truthy(a) /\ Truthy(r),
              expiresAt |-> IF Truthy(x) THEN ParseInt(x) ELSE Null],
             <<>>)

\* POST /api/auth/logout clears the session: the three cookies are removed.
LogoutPOST(rq) ==
  Respond(rq, 200, "", [kind |-> "logout"],
          <<SetCookie("access", EmptyStr, Num(0)), SetCookie("refresh", EmptyStr, Num(0)),
            SetCookie("expires", EmptyStr, Num(0))>>)

\* ---- the routes from getValidAccessToken on
Resolved(rq, c) ==
  CASE rq.route = "search" -> SearchResolved(rq, c)
    [] rq.route = "playlists" -> PlaylistsResolved(rq, c)
    [] rq.route = "user" -> UserResolved(rq, c)
    [] rq.route = "playbackGet" -> PlaybackGetResolved(rq, c)
    [] rq.route = "playbackPut" -> PlaybackPutResolved(rq, c)

ApiAnswered(rq, out, c) ==
  CASE rq.route = "search" -> SearchAnswered(rq, out, c)
    [] rq.route = "playlists" -> PlaylistsAnswered(rq, out, c)
    [] rq.route = "user" -> UserAnswered(rq, out, c)
    [] rq.route = "playbackGet" -> PlaybackGetAnswered(rq, out, c)
    [] rq.route = "playbackPut" -> PlaybackPutAnswered(rq, out, c)

\* const tokenResult = await SpotifyAuth.getValidAccessToken(userTokens)
Resolve(rq, tokens, c) ==
  LET rq1 == [rq EXCEPT !.tokens = tokens, !.resolvedAt = c.t]
      g == GetValidAccessToken(tokens, c.e, c.t)
  IN IF g.kind = "await" THEN Await(rq1, "refreshing", g.call)
     ELSE Resolved([rq1 EXCEPT !.tokenResult = g.value], c)

\* (a variant for C10: the configuration is not looked at)
UserRouteGET_NoConfigCheck(rq, j, c) ==
  LET tokens == ReadTokens(j, c.t)
  IN IF tokens = Null
     THEN Respond(rq, 401, "User not authenticated with Spotify", Null, <<>>)
     ELSE Resolve(rq, tokens, c)

\* The prelude the library routes share: configuration, then the cookies.
UserRouteGET(rq, j, c) ==
  IF ConfigMissing(c.e) THEN Respond(rq, 503, "Spotify API not configured", Null, <<>>)
  ELSE LET tokens == ReadTokens(j, c.t)
       IN IF tokens = Null
          THEN Respond(rq, 401, "User not authenticated with Spotify", Null, <<>>)
          ELSE Resolve(rq, tokens, c)

PlaylistsGET(rq, j, c) == UserRouteGET(rq, j, c)
UserGET(rq, j, c) == UserRouteGET(rq, j, c)
PlaybackGET(rq, j, c) == UserRouteGET(rq, j, c)
PlaybackPUT(rq, j, c) == UserRouteGET(rq, j, c)

Placeholder(e) ==
  \/ e.clientId = "your_actual_client_id_here"
  \/ e.clientSecret = "your_actual_client_secret_here"
  \/ e.clientId = "a703c5ee2c4e44f388684d905e8ba99c"

SearchGET(rq, j, c) ==
  IF ~rq.input.q THEN Respond(rq, 400, "Query parameter is required", Null, <<>>)
  ELSE IF ConfigMissing(c.e) THEN Respond(rq, 503, "Spotify API not configured", Null, <<>>)
  ELSE IF Placeholder(c.e)
  THEN Respond(rq, 503, "Spotify API credentials are placeholder values", Null, <<>>)
  ELSE Resolve(rq, ReadTokens(j, c.t), c)

\* -------------------------------------------------------------------- page
\* The Home component (page.tsx): the state it holds, the timers it has set
\* and, per request slot, the fetch it awaits ("none" when the request is not
\* the page's).
PollDelayMs == 500
PollIntervalMs == 5000

\* A function the component creates in a render sees the state of that
\* render for good: isAuthenticated and currentTrack are read by the
\* callbacks that timers and awaits run later.
Closure(p) == [isAuthenticated |-> p.isAuthenticated, currentTrack |-> p.currentTrack]
NoClosure == [isAuthenticated |-> FALSE, currentTrack |-> Null]

\* setTimeout / setInterval: the instant the callback is due and the callback
Timer(due, c) == [due |-> due, callback |-> c]

Track(id) == [kind |-> "track", id |-> id]
NoDevices == [kind |-> "list"]

PageInit ==
  [mounted |-> FALSE, isAuthenticated |-> FALSE, authChecked |-> FALSE,
   currentPlayback |-> Null, availableDevices |-> NoDevices, isPlaying |-> FALSE,
   currentTrack |-> Null, preview |-> Null,
   fetch |-> [r \in Reqs |-> "none"], caller |-> [r \in Reqs |-> ""],
   closure |-> [r \in Reqs |-> NoClosure],
   timers |-> <<>>, intervals |-> <<>>]

\* response.ok
Ok(resp) == resp.status >= 200 /\ resp.status < 300

\* fetch rejects (the request or its response is lost): the awaiting handler
\* goes to its catch block. No status of a response is 0.
FetchError == [status |-> 0, error |-> "Failed to fetch", payload |-> Null, cookies |-> <<>>]

\* checkAuth, from the answer on
CheckAuthReturn(p, resp) ==
  [p EXCEPT !.isAuthenticated = IF Ok(resp) THEN resp.payload.authenticated ELSE @,
            !.authChecked = TRUE]

\* The effect on [isAuthenticated, authChecked], after the render that
\* follows the change from p0 to p: the cleanup of its last run clears the
\* interval that run had set; when the page is authenticated and checked, it
\* sets an interval whose callback is this render's fetchPlaybackState.
EffectRuns(p0, p) ==
  p0.isAuthenticated # p.isAuthenticated \/ p0.authChecked # p.authChecked
Cleanup(p0, p) ==
  IF p0.isAuthenticated /\ p0.authChecked /\ p.intervals # <<>>
  THEN [p EXCEPT !.intervals = SubSeq(@, 1, Len(@) - 1)]
  ELSE p
Effect(p0, p, t) ==
  IF ~EffectRuns(p0, p) THEN p
  ELSE LET q == Cleanup(p0, p)
       IN IF q.isAuthenticated /\ q.authChecked
          THEN [q EXCEPT !.intervals = Append(@, Timer(t + PollIntervalMs, Closure(q)))]
          ELSE q

\* (a variant for C24: only the first answer is taken)
FetchPlaybackStateReturn_Once(p, resp, c) ==
  IF Ok(resp) /\ p.currentPlayback = Null
  THEN LET playback == resp.payload.playback
           item == playback.kind = "playback"
       IN [p EXCEPT !.currentPlayback = playback,
                    !.availableDevices = resp.payload.devices,
                    !.isPlaying = IF item THEN playback.is_playing ELSE FALSE,
                    !.currentTrack = IF item /\ c.currentTrack = Null
                                     THEN Track(playback.item) ELSE @]
  ELSE p

\* (a variant for C21: a failed poll clears what the page holds)
FetchPlaybackStateReturn_Reset(p, resp, c) ==
  IF Ok(resp)
  THEN LET playback == resp.payload.playback
           item == playback.kind = "playback"
       IN [p EXCEPT !.currentPlayback = playback,
                    !.availableDevices = resp.payload.devices,
                    !.isPlaying = IF item THEN playback.is_playing ELSE FALSE,
                    !.currentTrack = IF item /\ c.currentTrack = Null
                                     THEN Track(playback.item) ELSE @]
  ELSE [p EXCEPT !.currentPlayback = Null, !.isPlaying = FALSE]

\* fetchPlaybackState, from the answer on, with the state c its render had:
\* it sets no timer and sends nothing. data.playback?.item is there when the
\* playback is an object (not null, not the empty string of a 204).
FetchPlaybackStateReturn(p, resp, c) ==
  IF Ok(resp)
  THEN LET playback == resp.payload.playback
           item == playback.kind = "playback"
       IN [p EXCEPT !.currentPlayback = playback,
                    !.availableDevices = resp.payload.devices,
                    !.isPlaying = IF item THEN playback.is_playing ELSE FALSE,
                    !.currentTrack = IF item /\ c.currentTrack = Null
                                     THEN Track(playback.item) ELSE @]
  ELSE p

\* (a variant for C20: the poll is scheduled whatever the answer)
ControlPlaybackReturn_Always(p, resp, t, c) ==
  [p EXCEPT !.timers = Append(@, Timer(t + PollDelayMs, c))]

\* controlPlayback, from the answer on: setTimeout(fetchPlaybackState, 500)
\* when the response is ok, an alert otherwise. The callback is the
\* fetchPlaybackState of the render controlPlayback was called in.
ControlPlaybackReturn(p, resp, t, c) ==
  IF Ok(resp) THEN [p EXCEPT !.timers = Append(@, Timer(t + PollDelayMs, c))] ELSE p

\* What the caller of controlPlayback awaits: controlPlayback handles the
\* non-ok answer and the rejected fetch itself (console.error, alert) and
\* returns in every case.
ControlPlaybackSettles(resp) == Returned(Undefined)

\* handleTrackSelectWithSpotify, after await controlPlayback('play', uri):
\* its catch block runs handleTrackSelect (preview playback).
HandleTrackSelectResume(p, outcome, track) ==
  IF outcome.kind = "throw" THEN [p EXCEPT !.preview = track] ELSE p

\* handleLogout, after await fetch(logout): onAuthChange(false) once the
\* fetch resolves, whatever its status; its catch block only logs.
HandleLogoutResume(p, resp) ==
  IF resp = FetchError THEN p ELSE [p EXCEPT !.isAuthenticated = FALSE]

\* The commands the page's controls send: previous, next, play/pause and the
\* track list pass (action, trackUri); the volume slider passes the action only.
Commands == {"play", "pause", "next", "previous", "volume"}
ControlBody(a) == [NoInput EXCEPT !.action = a, !.trackUri = (a \in {"play", "pause"})]

\* A track of the page's lists: none of the items the device reports.
Picked == Track(MaxDevice + 1)

\* ----------------------------------------------------------------- actions
Init ==
  /\ now = 0
  /\ env \in [clientId : ClientIds, clientSecret : ClientSecrets, redirectUri : RedirectUris]
  /\ jar = EmptyJar
  /\ req = [r \in Reqs |-> IdleReq]
  /\ issued = 0
  /\ svcUntil = 0
  /\ page = PageInit
  /\ device = 0

Here == Ctx(env, now, svcUntil > now)

\* A new request takes the lowest free slot.
Free(r) ==
  /\ req[r].pc = "idle"
  /\ \A s \in Reqs : s < r => req[s].pc # "idle"

New(route, input) ==
  [IdleReq EXCEPT !.route = route, !.input = input]

Begin(r, rq) ==
  /\ req' = [req EXCEPT ![r] = rq]
  /\ UNCHANGED <<now, env, device, jar, issued, svcUntil>>

SearchStart(r) ==
  /\ Free(r)
  /\ UNCHANGED page
  /\ \E q \in BOOLEAN :
       Begin(r, SearchGET(New("search", [NoInput EXCEPT !.q = q]), jar, Here))

PlaylistsStart(r) ==
  /\ Free(r)
  /\ UNCHANGED page
  /\ Begin(r, PlaylistsGET(New("playlists", NoInput), jar, Here))

UserStart(r) ==
  /\ Free(r)
  /\ UNCHANGED page
  /\ Begin(r, UserGET(New("user", NoInput), jar, Here))

PlaybackGetStart(r) ==
  /\ Free(r)
  /\ UNCHANGED page
  /\ Begin(r, PlaybackGET(New("playbackGet", NoInput), jar, Here))

PlaybackPutStart(r) ==
  /\ Free(r)
  /\ UNCHANGED page
  /\ \E a \in Actions, u \in BOOLEAN, v \in BOOLEAN :
       /\ u => a = "play"
       /\ v => a = "volume"
       /\ Begin(r, PlaybackPUT(New("playbackPut",
                      [NoInput EXCEPT !.action = a, !.trackUri = u, !.volumePercent = v]),
                      jar, Here))

AuthStatusStart(r) ==
  /\ Free(r)
  /\ UNCHANGED page
  /\ Begin(r, AuthStatusGET(New("authStatus", NoInput), jar, Here))

CallbackStart(r) ==
  /\ Free(r)
  /\ UNCHANGED page
  /\ \E code \in BOOLEAN, error \in BOOLEAN :
       Begin(r, CallbackGET(New("callback",
                  [NoInput EXCEPT !.code = code, !.error = error]), Here))

\* The token endpoint answers; a 2xx answer issues the next credential.
TokenAnswer(r, grant, out) ==
  /\ out \in TokenOutcomes(grant, issued + 1)
  /\ Issues(out) => issued < MaxIssued
  /\ issued' = IF Issues(out) THEN issued + 1 ELSE issued

\* The refresh grant is answered and the route goes on.
RefreshReturn(r) ==
  /\ req[r].pc = "refreshing"
  /\ \E out \in TokenOutcomes("refresh_token", issued + 1) :
       /\ TokenAnswer(r, "refresh_token", out)
       /\ LET rq == Answered(req[r], out)
              res == GetValidAccessTokenResume(rq.tokens, out, now)
          IN req' = [req EXCEPT ![r] =
                       Resolved([rq EXCEPT !.tokenResult = res, !.tokenAt = now], Here)]
  /\ UNCHANGED <<now, env, device, jar, svcUntil, page>>

\* The client-credentials grant is answered.
ServiceTokenReturn(r) ==
  /\ req[r].pc = "authenticating"
  /\ \E out \in TokenOutcomes("client_credentials", issued + 1) :
       /\ TokenAnswer(r, "client_credentials", out)
       /\ req' = [req EXCEPT ![r] =
                    SearchAuthenticated([Answered(req[r], out) EXCEPT !.tokenAt = now],
                                        out, Here)]
       /\ svcUntil' =
            IF Issues(out) /\ out.data.access_token # Undefined
                           /\ out.data.expires_in # Undefined
                           /\ now + out.data.expires_in.v * 1000 > svcUntil
            THEN now + out.data.expires_in.v * 1000 ELSE svcUntil
  /\ UNCHANGED <<now, env, device, jar, page>>

\* The authorization-code grant is answered.
ExchangeReturn(r) ==
  /\ req[r].pc = "exchanging"
  /\ \E out \in TokenOutcomes("authorization_code", issued + 1) :
       /\ TokenAnswer(r, "authorization_code", out)
       /\ req' = [req EXCEPT ![r] =
                    CallbackExchanged([Answered(req[r], out) EXCEPT !.tokenAt = now],
                                      out, Here)]
  /\ UNCHANGED <<now, env, device, jar, svcUntil, page>>

\* The player endpoint's 200 answer carries the state of the device.
Served(rq, out, d) ==
  IF /\ out.kind = "response" /\ out.status = 200
     /\ \E i \in DOMAIN rq.calls : rq.calls[i].out = Null /\ rq.calls[i].endpoint = "me/player"
  THEN Response(200, PlaybackState(d))
  ELSE out

\* The Web API answers the call (or the calls sent together) of a route.
ApiReturn(r) ==
  /\ req[r].pc = "calling"
  /\ \E out \in ApiOutcomes :
       LET ans == Served(req[r], out, device)
       IN req' = [req EXCEPT ![r] = ApiAnswered(Answered(req[r], ans), ans, Here)]
  /\ UNCHANGED <<now, env, device, jar, issued, svcUntil, page>>

\* The response reaches the browser, which stores its cookies.
Stored(r) == PurgeExpired(StoreAll(jar, req[r].resp.cookies, now), now)

Deliver(r) ==
  /\ req[r].pc = "done"
  /\ page.fetch[r] = "none"
  /\ jar' = Stored(r)
  /\ req' = [req EXCEPT ![r] = IdleReq]
  /\ UNCHANGED <<now, env, device, issued, svcUntil, page>>

\* The clock ticks. A response that carries no cookie reaches the browser
\* within the tick it was sent in (its delay changes nothing in the jar).
Elapse ==
  /\ \A r \in Reqs : req[r].pc = "done" => req[r].resp.cookies # <<>>
  /\ now' = now + TickMs
  /\ jar' = PurgeExpired(jar, now')
  /\ svcUntil' = IF svcUntil <= now' THEN 0 ELSE svcUntil
  /\ UNCHANGED <<env, device, req, issued, page>>

Tick ==
  /\ now < MaxTicks * TickMs
  /\ Elapse

\* One browser session that sends its requests one after the other.
Next ==
  \/ \E r \in Solo : SearchStart(r)
  \/ \E r \in Solo : PlaylistsStart(r)
  \/ \E r \in Solo : UserStart(r)
  \/ \E r \in Solo : PlaybackGetStart(r)
  \/ \E r \in Solo : PlaybackPutStart(r)
  \/ \E r \in Solo : CallbackStart(r)
  \/ \E r \in Solo : AuthStatusStart(r)
  \/ \E r \in Solo : RefreshReturn(r)
  \/ \E r \in Solo : ServiceTokenReturn(r)
  \/ \E r \in Solo : ExchangeReturn(r)
  \/ \E r \in Solo : ApiReturn(r)
  \/ \E r \in Solo : Deliver(r)
  \/ Tick

Spec == Init /\ [][Next]_vars

\* Requests in flight together (the page fires its fetches without waiting
\* for one another). The clock ticks only while no request awaits the
\* network, and a response that carries no cookie is taken off the wire
\* before anything else happens (its delivery changes nothing). The OAuth
\* callback is a page navigation: the page's fetches start once it is over.
Delivered == \A r \in Reqs : req[r].pc = "done" => req[r].resp.cookies # <<>>

Navigating == \E r \in Reqs : req[r].route = "callback"
Quiet == \A r \in Reqs : req[r].pc = "idle"

QuietTick ==
  /\ \A r \in Reqs : req[r].pc \in {"idle", "done"}
  /\ Tick

NextConcurrent ==
  \/ \E r \in Reqs : Delivered /\ ~Navigating /\ PlaylistsStart(r)
  \/ \E r \in Reqs : Delivered /\ ~Navigating /\ UserStart(r)
  \/ \E r \in Reqs : Quiet /\ CallbackStart(r)
  \/ \E r \in Reqs : Delivered /\ RefreshReturn(r)
  \/ \E r \in Reqs : Delivered /\ ExchangeReturn(r)
  \/ \E r \in Reqs : Delivered /\ ApiReturn(r)
  \/ \E r \in Reqs : Deliver(r)
  \/ QuietTick

SpecConcurrent == Init /\ [][NextConcurrent]_vars

\* ---- the page and the routes it calls
\* A fetch of the page is sent in slot r / has been handled.
Fetching(p, r, kind, caller, c) ==
  [p EXCEPT !.fetch[r] = kind, !.caller[r] = caller, !.closure[r] = c]
Settled(p, r) == Fetching(p, r, "none", "", NoClosure)

\* The document loads and the mount effect runs checkAuth.
PageMount(r) ==
  /\ ~page.mounted
  /\ Quiet
  /\ Free(r)
  /\ req' = [req EXCEPT ![r] = AuthStatusGET(New("authStatus", NoInput), jar, Here)]
  /\ page' = Fetching([page EXCEPT !.mounted = TRUE], r, "checkAuth", "", Closure(page))
  /\ UNCHANGED <<now, env, device, jar, issued, svcUntil>>

\* handleLogin: the browser leaves the page for the authorization page and
\* comes back through the callback route; the document and its timers are gone.
PageLogin(r) ==
  /\ page.mounted
  /\ ~page.isAuthenticated
  /\ Quiet
  /\ Free(r)
  /\ \E code \in BOOLEAN, error \in BOOLEAN :
       req' = [req EXCEPT ![r] = CallbackGET(New("callback",
                 [NoInput EXCEPT !.code = code, !.error = error]), Here)]
  /\ page' = Fetching(PageInit, r, "navigation", "", NoClosure)
  /\ UNCHANGED <<now, env, device, jar, issued, svcUntil>>

\* The callback's redirect is followed: the cookies are stored and the page
\* is loaded anew.
PageLanded(r) ==
  /\ req[r].pc = "done"
  /\ page.fetch[r] = "navigation"
  /\ jar' = Stored(r)
  /\ req' = [req EXCEPT ![r] = IdleReq]
  /\ page' = PageInit
  /\ UNCHANGED <<now, env, device, issued, svcUntil>>

\* fetch rejects instead of resolving with the route's response: nothing of
\* what the route did reaches the page.
FetchFails(r) ==
  /\ req[r].pc = "done"
  /\ page.fetch[r] \in {"checkAuth", "poll", "command", "logout"}
  /\ req[r].resp # FetchError
  /\ req' = [req EXCEPT ![r] = [New(req[r].route, NoInput) EXCEPT !.pc = "done",
                                                                 !.resp = FetchError]]
  /\ UNCHANGED <<now, env, device, jar, issued, svcUntil, page>>

\* checkAuth gets its answer. When the page turns out authenticated, the
\* effect on [isAuthenticated, authChecked] runs: fetchPlaybackState() is
\* called and the interval is set (the effect's fetchUserData and
\* fetchPlaylists are the requests of SpecConcurrent).
CheckAuthDone(r) ==
  /\ req[r].pc = "done"
  /\ page.fetch[r] = "checkAuth"
  /\ jar' = Stored(r)
  /\ LET p == CheckAuthReturn(page, req[r].resp)
         q == Effect(page, p, now)
     IN IF EffectRuns(page, p) /\ p.isAuthenticated /\ p.authChecked
        THEN /\ req' = [req EXCEPT ![r] = PlaybackGET(New("playbackGet", NoInput), jar', Here)]
             /\ page' = Fetching(q, r, "poll", "", Closure(p))
        ELSE /\ req' = [req EXCEPT ![r] = IdleReq]
             /\ page' = Settled(q, r)
  /\ UNCHANGED <<now, env, device, issued, svcUntil>>

\* fetchPlaybackState gets its answer.
PollDone(r) ==
  /\ req[r].pc = "done"
  /\ page.fetch[r] = "poll"
  /\ jar' = Stored(r)
  /\ req' = [req EXCEPT ![r] = IdleReq]
  /\ page' = Settled(FetchPlaybackStateReturn(page, req[r].resp, page.closure[r]), r)
  /\ UNCHANGED <<now, env, device, issued, svcUntil>>

\* controlPlayback is called from one of the page's controls; it returns at
\* once unless its render had isAuthenticated.
PageControl(r) ==
  /\ page.mounted
  /\ Closure(page).isAuthenticated
  /\ Len(page.timers) < MaxTimers
  /\ Free(r)
  /\ \E a \in Commands :
       /\ req' = [req EXCEPT ![r] =
                    PlaybackPUT(New("playbackPut", ControlBody(a)), jar, Here)]
       /\ page' = Fetching(page, r, "command",
                           IF a = "volume" THEN "handleVolumeChange" ELSE "onClick",
                           Closure(page))
  /\ UNCHANGED <<now, env, device, jar, issued, svcUntil>>

\* handleTrackSelectWithSpotify: a track of a list is clicked. The track is
\* shown; it is played on Spotify when the page is authenticated and the
\* track has a uri, as a preview (handleTrackSelect) otherwise.
PageSelect(r) ==
  /\ page.mounted
  /\ \E uri \in BOOLEAN :
       LET p == [page EXCEPT !.currentTrack = Picked]
       IN IF Closure(page).isAuthenticated /\ uri
          THEN /\ Len(page.timers) < MaxTimers
               /\ Free(r)
               /\ Delivered
               /\ req' = [req EXCEPT ![r] =
                            PlaybackPUT(New("playbackPut", ControlBody("play")), jar, Here)]
               /\ page' = Fetching(p, r, "command", "handleTrackSelectWithSpotify",
                                   Closure(page))
          ELSE /\ req' = req
               /\ page' = [p EXCEPT !.preview = Picked]
  /\ UNCHANGED <<now, env, device, jar, issued, svcUntil>>

\* controlPlayback gets its answer, and so does the handler that awaits it.
ControlDone(r) ==
  /\ req[r].pc = "done"
  /\ page.fetch[r] = "command"
  /\ jar' = Stored(r)
  /\ req' = [req EXCEPT ![r] = IdleReq]
  /\ LET p == ControlPlaybackReturn(page, req[r].resp, now, page.closure[r])
         q == IF page.caller[r] = "handleTrackSelectWithSpotify"
              THEN HandleTrackSelectResume(p, ControlPlaybackSettles(req[r].resp), Picked)
              ELSE p
     IN page' = Settled(q, r)
  /\ UNCHANGED <<now, env, device, issued, svcUntil>>

\* handleLogout: the logout route is called.
PageLogout(r) ==
  /\ page.mounted
  /\ page.isAuthenticated
  /\ \A s \in Reqs : page.fetch[s] # "logout"
  /\ Free(r)
  /\ req' = [req EXCEPT ![r] = LogoutPOST(New("logout", NoInput))]
  /\ page' = Fetching(page, r, "logout", "handleLogout", Closure(page))
  /\ UNCHANGED <<now, env, device, jar, issued, svcUntil>>

\* handleLogout gets its answer; the change of isAuthenticated runs the
\* effect, whose cleanup clears the interval.
LogoutDone(r) ==
  /\ req[r].pc = "done"
  /\ page.fetch[r] = "logout"
  /\ jar' = Stored(r)
  /\ req' = [req EXCEPT ![r] = IdleReq]
  /\ LET p == HandleLogoutResume(page, req[r].resp)
     IN page' = Settled(Effect(page, p, now), r)
  /\ UNCHANGED <<now, env, device, issued, svcUntil>>

\* A timer of setTimeout(fetchPlaybackState, 500) is due and runs its
\* callback: fetchPlaybackState returns at once unless its render had
\* isAuthenticated.
PageTimeout(r) ==
  /\ page.timers # <<>>
  /\ Head(page.timers).due <= now
  /\ Free(r)
  /\ LET c == Head(page.timers).callback
         p == [page EXCEPT !.timers = Tail(@)]
     IN IF c.isAuthenticated
        THEN /\ req' = [req EXCEPT ![r] = PlaybackGET(New("playbackGet", NoInput), jar, Here)]
             /\ page' = Fetching(p, r, "poll", "", c)
        ELSE /\ req' = req
             /\ page' = p
  /\ UNCHANGED <<now, env, device, jar, issued, svcUntil>>

\* An interval of setInterval(fetchPlaybackState, 5000) is due.
PageInterval(r) ==
  /\ Free(r)
  /\ \E i \in DOMAIN page.intervals :
       /\ page.intervals[i].due <= now
       /\ LET c == page.intervals[i].callback
              p == [page EXCEPT !.intervals[i].due = @ + PollIntervalMs]
          IN IF c.isAuthenticated
             THEN /\ req' = [req EXCEPT ![r] =
                               PlaybackGET(New("playbackGet", NoInput), jar, Here)]
                  /\ page' = Fetching(p, r, "poll", "", c)
             ELSE /\ req' = req
                  /\ page' = p
  /\ UNCHANGED <<now, env, device, jar, issued, svcUntil>>

\* The remote device goes on to another item: a command it has applied, the
\* end of a track, a change made on another device.
DeviceChange ==
  /\ device < MaxDevice
  /\ device' = device + 1
  /\ UNCHANGED <<now, env, jar, req, issued, svcUntil, page>>

PageTick ==
  /\ now < PageTicks * TickMs
  /\ \A r \in Reqs : req[r].pc \in {"idle", "done"}
  /\ Elapse

\* One page session whose fetches follow one another: the clock ticks only
\* while no request awaits the network, and a response that carries no cookie
\* is handled before anything else happens.
NextPage ==
  \/ \E r \in Solo : PageMount(r)
  \/ \E r \in Solo : PageLogin(r)
  \/ \E r \in Solo : PageLanded(r)
  \/ \E r \in Solo : FetchFails(r)
  \/ \E r \in Solo : CheckAuthDone(r)
  \/ \E r \in Solo : PollDone(r)
  \/ \E r \in Solo : Delivered /\ PageControl(r)
  \/ \E r \in Solo : ControlDone(r)
  \/ \E r \in Solo : Delivered /\ PageTimeout(r)
  \/ \E r \in Solo : Delivered /\ PageInterval(r)
  \/ \E r \in Solo : Delivered /\ RefreshReturn(r)
  \/ \E r \in Solo : Delivered /\ ExchangeReturn(r)
  \/ \E r \in Solo : Delivered /\ ApiReturn(r)
  \/ PageTick

SpecPage == Init /\ [][NextPage]_vars

\* One page session, track selection and logout included; its fetches follow
\* one another, as in SpecPage.
SessionTick ==
  /\ now < MaxTicks * TickMs
  /\ \A r \in Reqs : req[r].pc \in {"idle", "done"}
  /\ Elapse

NextSession ==
  \/ \E r \in Solo : PageMount(r)
  \/ \E r \in Solo : PageLogin(r)
  \/ \E r \in Solo : PageLanded(r)
  \/ \E r \in Solo : FetchFails(r)
  \/ \E r \in Solo : CheckAuthDone(r)
  \/ \E r \in Solo : PollDone(r)
  \/ \E r \in Solo : Delivered /\ PageControl(r)
  \/ \E r \in Solo : PageSelect(r)
  \/ \E r \in Solo : ControlDone(r)
  \/ \E r \in Solo : Delivered /\ PageLogout(r)
  \/ \E r \in Solo : LogoutDone(r)
  \/ \E r \in Solo : Delivered /\ PageTimeout(r)
  \/ \E r \in Solo : Delivered /\ RefreshReturn(r)
  \/ \E r \in Solo : Delivered /\ ExchangeReturn(r)
  \/ \E r \in Solo : Delivered /\ ApiReturn(r)
  \/ SessionTick

SpecSession == Init /\ [][NextSession]_vars

\* A page session that starts signed in: the deployment is configured and the
\* browser holds the cookies that the callback stored, at instant 0, for the
\* first pair the service issued. Its fetches are in flight together while
\* the remote device changes: a poll may still await the network, or its
\* answer the page, when the clock ticks and when a command, a delayed poll
\* or the logout is sent.
Configured ==
  [clientId |-> "client-id", clientSecret |-> "client-secret",
   redirectUri |-> "http://localhost/callback"]

SignedIn ==
  LET c == Ctx(Configured, 0, FALSE)
      rq == CallbackGET(New("callback", [NoInput EXCEPT !.code = TRUE]), c)
      out == Response(200, TokenData(UserTok(1), Num(MaxLife), RefreshTok(1)))
  IN StoreAll(EmptyJar, CallbackExchanged(Answered(rq, out), out, c).resp.cookies, 0)

InitOverlap ==
  /\ now = 0
  /\ env = Configured
  /\ jar = SignedIn
  /\ req = [r \in Reqs |-> IdleReq]
  /\ issued = 1
  /\ svcUntil = 0
  /\ page = PageInit
  /\ device = 0

Polling == \A r \in Reqs : req[r].pc = "idle" \/ page.fetch[r] = "poll"

OverlapTick ==
  /\ now < OverlapTicks * TickMs
  /\ \A r \in Reqs : req[r].pc \in {"idle", "done"} \/ page.fetch[r] = "poll"
  /\ Elapse

NextOverlap ==
  \/ \E r \in Reqs : PageMount(r)
  \/ \E r \in Reqs : FetchFails(r)
  \/ \E r \in Reqs : CheckAuthDone(r)
  \/ \E r \in Reqs : PollDone(r)
  \/ \E r \in Reqs : Polling /\ PageControl(r)
  \/ \E r \in Reqs : ControlDone(r)
  \/ \E r \in Reqs : Polling /\ PageLogout(r)
  \/ \E r \in Reqs : LogoutDone(r)
  \/ \E r \in Reqs : Polling /\ PageTimeout(r)
  \/ \E r \in Reqs : ApiReturn(r)
  \/ DeviceChange
  \/ OverlapTick

SpecOverlap == InitOverlap /\ [][NextOverlap]_vars

\* The same session when time passes, the browser runs every timer that is
\* due and every handler whose answer has arrived, and every call to the
\* service is answered.
SpecOverlapFair ==
  /\ SpecOverlap
  /\ SF_vars(OverlapTick)
  /\ SF_vars(\E r \in Reqs : Polling /\ PageTimeout(r))
  /\ \A r \in Reqs : WF_vars(ApiReturn(r))
  /\ \A r \in Reqs : WF_vars(CheckAuthDone(r))
  /\ \A r \in Reqs : WF_vars(PollDone(r))
  /\ \A r \in Reqs : WF_vars(ControlDone(r))
  /\ \A r \in Reqs : WF_vars(LogoutDone(r))

\* ------------------------------------------------------------------ claims
NumLe(a, b) == ~a.nan /\ ~b.nan /\ a.v <= b.v
Requests == {req[r] : r \in Reqs}
ApiRoutes == {"search", "playlists", "user", "playbackGet", "playbackPut"}

\* The answer a request got to its refresh grant, Null while there is none.
RefreshAnswer(rq) ==
  IF \E i \in TokenCalls(rq, "refresh_token") : rq.calls[i].out # Null
  THEN rq.calls[CHOOSE i \in TokenCalls(rq, "refresh_token") : TRUE].out
  ELSE Null
WellFormed(out) ==
  /\ AxiosResolves(out)
  /\ out.data.access_token # Undefined
  /\ out.data.expires_in # Undefined
\* getValidAccessToken was called with a pair that had not expired / had.
ResolvedFresh(rq) == rq.tokens # Null /\ NumLt(Num(rq.resolvedAt), rq.tokens.expires_at)
ResolvedExpired(rq) == rq.tokens # Null /\ ~NumLt(Num(rq.resolvedAt), rq.tokens.expires_at)
\* The expiry of the user credential a request holds.
HeldExpiry(rq) ==
  IF rq.tokenResult.updatedTokens # Undefined
  THEN rq.tokenResult.updatedTokens.expires_at ELSE rq.tokens.expires_at

\* C1: requests that resolve the same expired pair at the same time share one
\* refresh: no two of them have a refresh grant in flight together.
C1_SingleRefreshInFlight ==
  \A r1, r2 \in Reqs :
    (/\ req[r1].pc = "refreshing" /\ req[r2].pc = "refreshing"
     /\ req[r1].tokens = req[r2].tokens
     /\ NumLe(req[r1].tokens.expires_at, Num(req[r1].resolvedAt))) => r1 = r2

\* C2: a pair whose expiry is after the instant of the call resolves to its own
\* access, with no updated pair and with no call to the token endpoint.
C2_FreshPairIsReturned ==
  \A rq \in Requests :
    ResolvedFresh(rq) =>
      /\ rq.tokenResult = TokenResult(rq.tokens.access_token, Undefined)
      /\ TokenCalls(rq, "refresh_token") = {}
C2_Witness ==
  \E rq \in Requests : ResolvedFresh(rq) /\ rq.pc = "calling" /\ ApiCalls(rq) # {}

\* C3: a pair that has expired is resolved by exactly one refresh grant, sent
\* with the pair's refresh token; when the grant is answered with a new access,
\* the result carries that access, also in its updated pair.
C3_ExpiredPairIsRefreshedOnce ==
  \A rq \in Requests :
    ResolvedExpired(rq) =>
      /\ Cardinality(TokenCalls(rq, "refresh_token")) = 1
      /\ \A i \in TokenCalls(rq, "refresh_token") :
           /\ rq.calls[i].refresh = rq.tokens.refresh_token
           /\ rq.calls[i].sentAt = rq.resolvedAt
      /\ (RefreshAnswer(rq) # Null /\ WellFormed(RefreshAnswer(rq))) =>
           /\ rq.tokenResult # Null
           /\ rq.tokenResult.accessToken = RefreshAnswer(rq).data.access_token
           /\ rq.tokenResult.accessToken # rq.tokens.access_token
           /\ rq.tokenResult.updatedTokens # Undefined
           /\ rq.tokenResult.updatedTokens.access_token = rq.tokenResult.accessToken
C3_Witness ==
  \E rq \in Requests :
    /\ ResolvedExpired(rq) /\ ~rq.tokens.expires_at.nan
    /\ RefreshAnswer(rq) # Null /\ WellFormed(RefreshAnswer(rq))
    /\ rq.tokenResult # Null

\* C4: a refresh that fails (no answer, a 4xx or 5xx answer, an answer without
\* access_token or expires_in) resolves to the fallback, and no result ever
\* holds an undefined access.
C4_FailedRefreshFallsBack ==
  \A rq \in Requests :
    (rq.tokens # Null /\ NumLe(rq.tokens.expires_at, Num(rq.resolvedAt))) =>
      /\ (RefreshAnswer(rq) # Null /\ ~WellFormed(RefreshAnswer(rq))) =>
           rq.tokenResult = Null
      /\ rq.tokenResult # Null => rq.tokenResult.accessToken # Undefined

\* C5: a refresh keeps the refresh token: the updated pair holds the one of
\* the pair it refreshed, and the response of a route never changes the one in
\* the session store.
C5_RefreshTokenCarried ==
  /\ [](\A rq \in Requests :
          (rq.tokenResult # Null /\ rq.tokenResult.updatedTokens # Undefined) =>
            rq.tokenResult.updatedTokens.refresh_token = rq.tokens.refresh_token)
  /\ [][\A r \in Reqs :
          (req[r].pc = "done" /\ req[r].route # "callback" /\ req'[r].pc = "idle") =>
            jar'.refresh = jar.refresh]_vars
\* a pair that a refresh produced is refreshed again, and the result is stored
C5_Witness ==
  \E rq \in Requests :
    /\ rq.pc = "done" /\ rq.resp.cookies # <<>> /\ rq.route # "callback"
    /\ rq.tokens.access_token.kind = "user"
    /\ rq.tokens.access_token.n # rq.tokens.refresh_token.n
    /\ rq.tokenResult.updatedTokens.access_token.kind = "user"
    /\ ~rq.tokens.expires_at.nan

\* C6: the expiry of a pair is the instant its grant was answered plus the
\* lifetime the answer reports (expires_in seconds), after a refresh and after
\* the authorization-code exchange.
C6_ExpiryIsIssuancePlusLifetime ==
  \A rq \in Requests :
    /\ (/\ rq.route # "callback" /\ rq.tokenResult # Null
        /\ rq.tokenResult.updatedTokens # Undefined
        /\ RefreshAnswer(rq).data.expires_in # Undefined) =>
          rq.tokenResult.updatedTokens.expires_at =
            Num(rq.tokenAt + RefreshAnswer(rq).data.expires_in.v * 1000)
    /\ (/\ rq.route = "callback" /\ rq.pc = "done" /\ rq.resp.cookies # <<>>
        /\ rq.calls[1].out.data.expires_in # Undefined) =>
          /\ rq.resp.cookies[3].name = "expires"
          /\ ParseInt(rq.resp.cookies[3].value) =
               Num(rq.tokenAt + rq.calls[1].out.data.expires_in.v * 1000)
C6_Witness ==
  \E rq \in Requests :
    /\ rq.route # "callback" /\ rq.tokenResult # Null
    /\ rq.tokenResult.updatedTokens # Undefined
    /\ RefreshAnswer(rq).data.expires_in # Undefined
    /\ rq.tokenAt > rq.resolvedAt

\* C7: no call to the Web API carries a user credential whose expiry is at or
\* before the instant the call is sent.
C7_NoExpiredCredentialSent ==
  \A rq \in Requests :
    \A i \in ApiCalls(rq) :
      rq.calls[i].bearer.kind = "user" =>
        ~NumLe(HeldExpiry(rq), Num(rq.calls[i].sentAt))

\* C8: when the playback-state read is answered 204, getCurrentPlayback
\* returns null, and the route reports that null as the playback.
C8_NoContentIsNull ==
  \A rq \in Requests :
    (/\ rq.route = "playbackGet" /\ ApiCalls(rq) # {}
     /\ LET first == rq.calls[CHOOSE i \in ApiCalls(rq) : \A j \in ApiCalls(rq) : i <= j]
        IN first.out # Null /\ first.out.kind = "response" /\ first.out.status = 204) =>
      /\ rq.playback = Null
      /\ (rq.pc = "done" /\ rq.resp.status = 200) => rq.resp.payload.playback = Null

\* C9: no client-credentials exchange is sent while a service credential
\* obtained before is still unexpired.
C9_ServiceCredentialReused ==
  \A rq \in Requests :
    \A i \in TokenCalls(rq, "client_credentials") : ~rq.calls[i].cached

\* C10 as stated: with the client id or secret missing, every request to an
\* API route is answered 503 and sends nothing to the external service.
C10_ConfigErrorOnEveryRequest ==
  \A rq \in Requests :
    (ConfigMissing(env) /\ rq.route \in ApiRoutes) =>
      rq.pc = "done" /\ rq.resp.status = 503 /\ rq.calls = <<>>

\* C10 as amended: with the client id or secret missing, a search without a
\* query is answered 400 and every other request to an API route 503; none
\* sends anything to the external service.
C10_ConfigErrorAfterQueryCheck ==
  \A rq \in Requests :
    (ConfigMissing(env) /\ rq.route \in ApiRoutes) =>
      /\ rq.pc = "done" /\ rq.calls = <<>>
      /\ rq.resp.status = IF rq.route = "search" /\ ~rq.input.q THEN 400 ELSE 503
C10_Witness ==
  \E rq \in Requests :
    /\ ConfigMissing(env) /\ rq.route = "playbackPut" /\ rq.input.action = "play"
    /\ rq.pc = "done" /\ rq.resp.status = 503

UserRoutes == {"playlists", "user", "playbackGet", "playbackPut"}
\* Resolution is over and gave no credential: the cookies held no complete
\* pair, or the refresh was rejected.
Fallback(rq) ==
  /\ rq.pc \notin {"idle", "refreshing"} /\ ~ConfigMissing(env)
  /\ rq.route \in ApiRoutes
  /\ (rq.route = "search" => rq.input.q /\ ~Placeholder(env))
  /\ rq.tokenResult = Null

\* C11: on a route that needs a user (playlists, user, playback GET and PUT),
\* a request whose resolution gave no credential is answered 401 and sends no
\* call to the Web API and no client-credentials grant.
C11_FallbackIsUnauthenticated ==
  \A rq \in Requests :
    (Fallback(rq) /\ rq.route \in UserRoutes) =>
      /\ rq.pc = "done" /\ rq.resp.status = 401
      /\ ApiCalls(rq) = {}
      /\ TokenCalls(rq, "client_credentials") = {}
\* the refresh of an expired pair was rejected
C11_Witness ==
  \E rq \in Requests :
    /\ Fallback(rq) /\ rq.route \in UserRoutes
    /\ rq.tokens # Null /\ RefreshAnswer(rq) # Null

\* The refresh grant of an expired pair gave no new access: it was rejected,
\* got no answer, or its answer carries no access_token.
Unrefreshable(rq) ==
  /\ rq.tokens # Null /\ NumLe(rq.tokens.expires_at, Num(rq.resolvedAt))
  /\ RefreshAnswer(rq) # Null
  /\ (~AxiosResolves(RefreshAnswer(rq)) \/ RefreshAnswer(rq).data.access_token = Undefined)
\* The answer a request got to its client-credentials grant.
ServiceAnswer(rq) ==
  rq.calls[CHOOSE i \in TokenCalls(rq, "client_credentials") : TRUE].out
\* The Web API answered every call of the request with 200.
ApiOk(rq) ==
  \A i \in ApiCalls(rq) :
    rq.calls[i].out # Null /\ rq.calls[i].out.kind = "response" /\ rq.calls[i].out.status = 200

\* C12: a search whose expired pair cannot be refreshed is served as a guest:
\* it obtains a service credential and searches with it, and when the service
\* answers both, the response is 200 with the guest's tracks.
C12_UnrefreshableSearchIsGuest ==
  \A rq \in Requests :
    (rq.route = "search" /\ Unrefreshable(rq)) =>
      /\ ~UserSearch(rq)
      /\ TokenCalls(rq, "client_credentials") # {}
      /\ \A i \in ApiCalls(rq) :
           rq.calls[i].bearer = ServiceAnswer(rq).data.access_token
      /\ (rq.pc = "done" /\ WellFormed(ServiceAnswer(rq)) /\ ApiOk(rq)) =>
           rq.resp.status = 200 /\ rq.resp.payload.limit = 10

\* C13: a search in anonymous mode (no complete pair in the cookies, or a
\* resolution that gave no credential) sends no user access: the bearer of its
\* catalog call is what the client-credentials grant answered.
C13_AnonymousSearchSendsNoUserAccess ==
  \A rq \in Requests :
    (rq.route = "search" /\ Fallback(rq)) =>
      \A i \in ApiCalls(rq) :
        /\ rq.calls[i].bearer.kind # "user"
        /\ TokenCalls(rq, "client_credentials") # {}
        /\ rq.calls[i].bearer = ServiceAnswer(rq).data.access_token
\* the refresh of a pair was rejected and the catalog call went out
C13_Witness ==
  \E rq \in Requests :
    /\ rq.route = "search" /\ Fallback(rq) /\ rq.tokens # Null
    /\ \E i \in ApiCalls(rq) : rq.calls[i].bearer.kind = "svc"

\* The answers the Web API gave to the calls of a request.
ApiAnswers(rq) == {rq.calls[i].out : i \in ApiCalls(rq)} \ {Null}
Rejected(rq, status) ==
  \E out \in ApiAnswers(rq) : out.kind = "response" /\ out.status = status

\* C14: a playback-control call that the service rejects with 403, 404, 401
\* or 429 is reported by the playback PUT route with that same status.
C14_ControlErrorIsTyped ==
  \A rq \in Requests :
    (rq.route = "playbackPut" /\ rq.pc = "done") =>
      \A st \in {401, 403, 404, 429} : Rejected(rq, st) => rq.resp.status = st

\* The Web API answered a call of the request with 429 or with 500 or above.
Throttled(rq) == Rejected(rq, 429)
Outage(rq) ==
  \E out \in ApiAnswers(rq) : out.kind = "response" /\ out.status >= 500

\* Any endpoint of the service, the token endpoint included, answered a call
\* of the request with 429 or with 500 or above.
AnyThrottled(rq) ==
  \E i \in DOMAIN rq.calls :
    rq.calls[i].out # Null /\ rq.calls[i].out.kind = "response" /\ rq.calls[i].out.status = 429
AnyOutage(rq) ==
  \E i \in DOMAIN rq.calls :
    rq.calls[i].out # Null /\ rq.calls[i].out.kind = "response" /\ rq.calls[i].out.status >= 500

\* C15 as stated: a request that met a 429 or a 5xx answer of the external
\* service, whichever endpoint gave it, is never answered 401; the search
\* route answers 429 for 429 and 502 for 5xx.
C15_TransientOnAnyEndpoint ==
  \A rq \in Requests :
    (rq.route \in ApiRoutes /\ rq.pc = "done" /\ (AnyThrottled(rq) \/ AnyOutage(rq))) =>
      /\ rq.resp.status # 401
      /\ (rq.route = "search" /\ AnyThrottled(rq)) => rq.resp.status = 429
      /\ (rq.route = "search" /\ AnyOutage(rq)) => rq.resp.status = 502

\* The token endpoint answered the grant of the request with 500 or above.
GrantOutage(rq, grant) ==
  \E i \in TokenCalls(rq, grant) :
    rq.calls[i].out # Null /\ rq.calls[i].out.kind = "response" /\ rq.calls[i].out.status >= 500

\* C15 as amended: a request whose Web API call (catalog, library, profile,
\* playback) was answered 429 or 5xx is answered with an error that is not
\* 401; the search route answers 429 for 429 and 502 for 5xx. An outage of
\* the token endpoint is no such case: during a refresh it is a failed
\* resolution (401 on the user routes, guest mode on search), and during the
\* client-credentials exchange of a search it is answered 500.
C15_TransientIsNotAuthFailure ==
  \A rq \in Requests :
    /\ (rq.route \in ApiRoutes /\ rq.pc = "done" /\ (Throttled(rq) \/ Outage(rq))) =>
         /\ rq.resp.status # 401
         /\ rq.resp.status \in {429, 500, 502}
         /\ (rq.route = "search" /\ Throttled(rq)) => rq.resp.status = 429
         /\ (rq.route = "search" /\ Outage(rq)) => rq.resp.status = 502
    /\ (rq.route \in UserRoutes /\ GrantOutage(rq, "refresh_token")) =>
         rq.pc = "done" /\ rq.resp.status = 401
    /\ (rq.route = "search" /\ GrantOutage(rq, "refresh_token")) =>
         TokenCalls(rq, "client_credentials") # {}
    /\ (rq.route = "search" /\ GrantOutage(rq, "client_credentials")) =>
         rq.pc = "done" /\ rq.resp.status = 500
\* a guest search whose catalog call met an outage
C15_Witness ==
  \E rq \in Requests :
    /\ rq.route = "search" /\ rq.pc = "done" /\ Outage(rq)
    /\ TokenCalls(rq, "client_credentials") # {}

\* Resolution refreshed the pair of the request: the grant was answered with a
\* new access and a lifetime.
Refreshed(rq) ==
  /\ rq.route \in ApiRoutes /\ rq.tokenResult # Null
  /\ NumLe(rq.tokens.expires_at, Num(rq.resolvedAt))
  /\ rq.tokenResult.updatedTokens # Undefined
  /\ WellFormed(RefreshAnswer(rq))
CookieSet(rq, name) ==
  {rq.resp.cookies[i] : i \in {j \in DOMAIN rq.resp.cookies : rq.resp.cookies[j].name = name}}

\* C16: the response of a request that refreshed its pair carries the new
\* access and the new expiry as cookies, whatever the status of the response.
C16_RefreshedPairIsSurfaced ==
  \A rq \in Requests :
    (Refreshed(rq) /\ rq.pc = "done") =>
      /\ \E k \in CookieSet(rq, "access") :
           k.value = rq.tokenResult.updatedTokens.access_token
      /\ \E k \in CookieSet(rq, "expires") :
           k.value = NumToString(rq.tokenResult.updatedTokens.expires_at)

\* The access and expiry cookies of the response of a request.
PairCookies(rq) == CookieSet(rq, "access") \cup CookieSet(rq, "expires")

\* C17 as stated: the cookies that persist a refreshed pair are written with
\* a Max-Age that is never negative.
C17_MaxAgeNeverNegative ==
  \A rq \in Requests :
    (Refreshed(rq) /\ rq.pc = "done") =>
      \A k \in PairCookies(rq) : ~k.maxAge.nan /\ k.maxAge.v >= 0

\* C17 as amended: when a route answers with the cookies of a refreshed pair,
\* both carry the same Max-Age, and that Max-Age, counted from the instant the
\* response is built, ends at expiresAt or within the second before it; it is
\* negative exactly when expiresAt has passed by then.
C17_MaxAgeEndsAtExpiry ==
  [][\A r \in Reqs :
       (req[r].pc # "done" /\ req'[r].pc = "done" /\ Refreshed(req'[r])
        /\ req'[r].resp.cookies # <<>>) =>
         LET exp == req'[r].tokenResult.updatedTokens.expires_at.v
         IN /\ CookieSet(req'[r], "access") # {} /\ CookieSet(req'[r], "expires") # {}
            /\ \A k \in PairCookies(req'[r]) :
                 /\ ~k.maxAge.nan
                 /\ now' + k.maxAge.v * 1000 <= exp
                 /\ now' + k.maxAge.v * 1000 > exp - 1000
                 /\ (k.maxAge.v < 0) <=> (exp < now')]_vars
\* the response is built after the refreshed pair has expired
C17_Witness ==
  \E rq \in Requests :
    /\ Refreshed(rq) /\ rq.pc = "done"
    /\ \E k \in PairCookies(rq) : ~k.maxAge.nan /\ k.maxAge.v < 0

\* The session store holds the refresh credential, and the entries of the
\* access credential and of its expiry have reached the end of their TTL.
AccessLapsed ==
  /\ CookieLive(jar.refresh, now)
  /\ ~CookieLive(jar.access, now) /\ ~CookieLive(jar.expires, now)
\* Slot r takes a request that reaches the resolution of its credential.
Arrives(r) ==
  /\ req[r].pc = "idle" /\ req'[r].pc # "idle"
  /\ req'[r].route \in ApiRoutes /\ ~ConfigMissing(env)
  /\ (req'[r].route = "search" => req'[r].input.q /\ ~Placeholder(env))

\* C18: a request that arrives while the store holds the refresh credential
\* and the access credential has lapsed is resolved through a refresh grant.
C18_LapsedAccessIsRefreshed ==
  [][\A r \in Reqs :
       (AccessLapsed /\ Arrives(r)) =>
         /\ req'[r].pc = "refreshing"
         /\ TokenCalls(req'[r], "refresh_token") # {}]_vars

\* What a response body holds besides flags, counts and addresses.
BodyFields(payload) ==
  DOMAIN payload \ {"kind", "limit", "to", "authenticated", "hasTokens"}
IsRefreshCredential(v) == v.kind = "refresh"

\* C19: the refresh credential is sent to the token endpoint only: no call to
\* the Web API carries it, as bearer or otherwise, and no response body
\* holds it.
C19_RefreshCredentialStaysPrivate ==
  \A rq \in Requests :
    /\ \A i \in ApiCalls(rq) :
         /\ ~IsRefreshCredential(rq.calls[i].bearer)
         /\ ~IsRefreshCredential(rq.calls[i].refresh)
    /\ \A i \in DOMAIN rq.calls :
         IsRefreshCredential(rq.calls[i].refresh) =>
           rq.calls[i].endpoint = "token" /\ rq.calls[i].grant = "refresh_token"
    /\ rq.pc = "done" =>
         \A f \in BodyFields(rq.resp.payload) : ~IsRefreshCredential(rq.resp.payload[f])
\* the refresh credential went to the token endpoint, and the request then
\* called the Web API
C19_Witness ==
  /\ CookieLive(jar.refresh, now) /\ IsRefreshCredential(jar.refresh.value)
  /\ \E rq \in Requests :
       /\ ApiCalls(rq) # {}
       /\ \E i \in TokenCalls(rq, "refresh_token") : IsRefreshCredential(rq.calls[i].refresh)

\* The fetch of the given kind that slot r carried gets its answer in this step.
Settles(r, kind) == page.fetch[r] = kind /\ req[r].pc = "done" /\ page'.fetch[r] # kind

\* The instants the timers are due at.
Dues(timers) == [i \in DOMAIN timers |-> timers[i].due]

\* The requests sent in this step.
Sends == {s \in Reqs : req[s].pc = "idle" /\ req'[s].pc # "idle"}

\* C20: a playback command that is answered ok sets exactly one timer, due
\* 500 ms later, and that timer sends exactly one poll, not before it is due;
\* a command that is answered otherwise, or not at all, sets none; and the
\* step that handles the answer to a command or to a poll sends no request
\* and, for a poll, sets no timer.
C20_AcknowledgedCommandPollsOnce ==
  [][/\ \A r \in Reqs :
          /\ Settles(r, "command") =>
               /\ Dues(page'.timers) = IF Ok(req[r].resp)
                                       THEN Append(Dues(page.timers), now + PollDelayMs)
                                       ELSE Dues(page.timers)
               /\ Sends = {}
               /\ req'[r].pc = "idle"
          /\ Settles(r, "poll") =>
               /\ page'.timers = page.timers
               /\ Sends = {}
               /\ req'[r].pc = "idle"
     /\ (page'.mounted /\ Len(page'.timers) < Len(page.timers)) =>
          /\ page'.timers = Tail(page.timers)
          /\ Head(page.timers).due <= now
          /\ Cardinality(Sends) = 1
          /\ \A s \in Sends : req'[s].route = "playbackGet" /\ page'.fetch[s] = "poll"
     /\ Len(page'.timers) > Len(page.timers) =>
          \E r \in Reqs : Settles(r, "command") /\ Ok(req[r].resp)]_vars

\* The poll that an acknowledged command delayed is due, one tick after the
\* command was answered, and has not been sent yet.
C20_Witness ==
  /\ page.timers # <<>>
  /\ Head(page.timers).due = now - TickMs + PollDelayMs
  /\ Head(page.timers).callback.isAuthenticated
  /\ Quiet

\* What the page holds of the remote playback.
PlaybackView(p) == <<p.currentPlayback, p.availableDevices, p.isPlaying, p.currentTrack>>

\* The session is active: the page is authenticated and its check is over.
Active(p) == p.mounted /\ p.isAuthenticated /\ p.authChecked

\* C21: a poll that fails (the fetch rejects, or the answer is 401 or any
\* other non-ok status) leaves the interval and what the page holds of the
\* playback as they were; while the session is active exactly one interval is
\* set, due no later than 5 seconds from now, and when it fires it sends one
\* poll and is due again 5 seconds after the instant it was due at.
C21_FailedPollKeepsSchedule ==
  [][/\ \A r \in Reqs :
          (Settles(r, "poll") /\ ~Ok(req[r].resp)) =>
             /\ page'.intervals = page.intervals
             /\ PlaybackView(page') = PlaybackView(page)
     /\ Active(page') =>
          /\ Len(page'.intervals) = 1
          /\ page'.intervals[1].due <= now' + PollIntervalMs
          /\ page'.intervals[1].callback.isAuthenticated
     /\ (Active(page) /\ Active(page') /\ page'.intervals # page.intervals) =>
          /\ page.intervals[1].due <= now
          /\ page'.intervals[1].due = page.intervals[1].due + PollIntervalMs
          /\ Cardinality(Sends) = 1
          /\ \A s \in Sends : req'[s].route = "playbackGet" /\ page'.fetch[s] = "poll"]_vars

\* A poll sent by the interval has been answered 401, and the page holds the
\* playback that an earlier poll brought.
C21_Witness ==
  /\ Active(page)
  /\ page.intervals[1].due >= 2 * PollIntervalMs
  /\ page.currentPlayback # Null
  /\ \E r \in Reqs : /\ page.fetch[r] = "poll"
                     /\ req[r].pc = "done"
                     /\ req[r].resp.status = 401

\* The session has ended: the page has been told it is not authenticated
\* (handleLogout called onAuthChange(false)) after its check was over.
Ended(p) == p.mounted /\ p.authChecked /\ ~p.isAuthenticated

\* The polls sent in this step.
Polls == {s \in Sends : req'[s].route = "playbackGet"}

\* C22: once the session has ended, no poll is sent: not by the interval,
\* and not by a timer that a command set before the session ended.
C22_NoPollAfterSessionEnd ==
  [][Ended(page) => Polls = {}]_vars

\* C23: the answer to a poll that arrives after the session has ended is
\* discarded: it changes nothing of what the page holds of the playback (the
\* playback, the device list, the playing flag, the current track).
C23_LatePollIsDiscarded ==
  [][\A r \in Reqs :
       (Settles(r, "poll") /\ Ended(page)) => PlaybackView(page') = PlaybackView(page)]_vars

\* The page holds a playback item / the answer brings one.
HoldsItem(p) == p.currentPlayback.kind = "playback"
BringsItem(resp) == Ok(resp) /\ resp.payload.playback.kind = "playback"

\* C25: the playback the page holds is never replaced by the result of an
\* older read. The device's items are numbered in the order it plays them, so
\* the result of an older read carries no later item: the answer to a poll
\* never takes the page back to an item before the one it holds.
C25_LatestReadIsAuthoritative ==
  [][\A r \in Reqs :
       (Settles(r, "poll") /\ HoldsItem(page) /\ BringsItem(req[r].resp)) =>
          page'.currentPlayback.item >= page.currentPlayback.item]_vars

\* A command has been acknowledged and the device has applied it: the poll
\* that the command delayed is pending, the device has reached the item it
\* stays on, and the timer is due within the session.
Applied ==
  /\ page.timers # <<>>
  /\ Head(page.timers).due <= OverlapTicks * TickMs
  /\ device = MaxDevice

\* What the page holds is the device's present state.
Reflects == page.currentPlayback = PlaybackState(device)

\* A poll has not succeeded: its fetch was lost, or its answer is not ok or
\* brings no playback item.
PollFailed ==
  \E r \in Reqs : page.fetch[r] = "poll" /\ req[r].pc = "done" /\ ~BringsItem(req[r].resp)

VolumeChanges ==
  {r \in Reqs : page.caller[r] = "handleVolumeChange" /\ req[r].pc = "done"
                  /\ req[r].resp # FetchError}

\* C26: a change of the volume by an authenticated user reaches the playback
\* PUT route as a volume command that carries volumePercent, and, when the
\* route holds a credential, a set-volume call is sent to the service.
C26_VolumeReachesService ==
  \A r \in VolumeChanges :
    /\ req[r].input.action = "volume"
    /\ req[r].input.volumePercent
    /\ req[r].tokenResult # Null =>
         \E i \in ApiCalls(req[r]) : req[r].calls[i].endpoint = ControlEndpoint("volume")

\* A poll that will set the current track is scheduled or in flight: its
\* fetchPlaybackState belongs to a render that had no current track.
Follows(c) == c.isAuthenticated /\ c.currentTrack = Null
CanFollow(p) ==
  \/ \E i \in DOMAIN p.intervals : Follows(p.intervals[i].callback)
  \/ \E i \in DOMAIN p.timers : Follows(p.timers[i].callback)
  \/ \E s \in Reqs : p.fetch[s] = "poll" /\ Follows(p.closure[s])

\* C27: the displayed track follows the device. When a successful poll
\* brings an item, the page of an active session shows that item as its
\* current track, at once or through a poll that is still to come.
C27_DisplayedTrackFollowsDevice ==
  [][\A r \in Reqs :
       (Settles(r, "poll") /\ BringsItem(req[r].resp) /\ Active(page')) =>
          \/ page'.currentTrack = Track(req[r].resp.payload.playback.item)
          \/ CanFollow(page')]_vars

\* At most one interval is set, and only while the session is active.
OneInterval(p) == Len(p.intervals) <= 1 /\ (p.intervals # <<>> => Active(p))

\* The polls and the playback commands sent in this step.
PlaybackSends == {s \in Sends : req'[s].route \in {"playbackGet", "playbackPut"}}

\* C28: at most one interval is set at any time, and only while the page is
\* authenticated and its check is over, whatever the logins and logouts
\* before; and a page that is not authenticated sends no poll and no
\* playback command.
C28_OnePollTimerPerSession ==
  [][/\ OneInterval(page')
     /\ ~page.isAuthenticated => PlaybackSends = {}]_vars

\* C29: when the play command that a track selection sent fails (the PUT is
\* answered non-ok, or its fetch is lost), the page falls back to the preview
\* of the selected track (handleTrackSelect).
C29_FailedPlayFallsBackToPreview ==
  [][\A r \in Reqs :
       (/\ Settles(r, "command")
        /\ page.caller[r] = "handleTrackSelectWithSpotify"
        /\ ~Ok(req[r].resp)) => page'.preview = Picked]_vars

\* The callback requests that have been answered, and whether the code
\* exchange of one succeeded (the token endpoint answered 2xx).
Callbacks == {rq \in Requests : rq.route = "callback" /\ rq.pc = "done"}
Exchanged(rq) == rq.calls # <<>> /\ AxiosResolves(rq.calls[1].out)

\* The browser holds a value for each of the three cookies.
AllThree(j, t) == \A n \in CookieNames : CookieLive(j[n], t) /\ j[n].value # EmptyStr

\* C30: the callback stores credentials only when the code exchange
\* succeeded. With an error parameter or without a code it redirects with an
\* error marker and makes no token call; unless the exchange succeeded it
\* redirects with an error marker and sets no cookie; when it succeeded it
\* redirects to the page and sets the three cookies from the one answer (the
\* access and the refresh credential as they came, the expiry as the instant
\* of the answer plus expires_in seconds). The status route reports
\* authenticated exactly when the browser holds all three values.
C30_CallbackStoresOnlyOnSuccess ==
  /\ \A rq \in Callbacks :
       /\ rq.resp.status = 307
       /\ rq.input.error => rq.calls = <<>> /\ rq.resp.payload.to = "/?error=access_denied"
       /\ (~rq.input.error /\ ~rq.input.code) =>
            rq.calls = <<>> /\ rq.resp.payload.to = "/?error=no_code"
       /\ ~Exchanged(rq) =>
            /\ rq.resp.cookies = <<>>
            /\ rq.resp.payload.to \in {"/?error=access_denied", "/?error=no_code",
                                        "/?error=token_exchange"}
       /\ Exchanged(rq) =>
            LET d == rq.calls[1].out.data
                cs == rq.resp.cookies
            IN /\ rq.resp.payload.to = "/"
               /\ Len(rq.calls) = 1
               /\ [i \in DOMAIN cs |-> cs[i].name] = <<"access", "refresh", "expires">>
               /\ cs[1].value = d.access_token
               /\ cs[2].value = d.refresh_token
               /\ d.expires_in # Undefined =>
                    ParseInt(cs[3].value) = Num(rq.tokenAt + d.expires_in.v * 1000)
  /\ \A rq \in Requests :
       (rq.route = "authStatus" /\ rq.pc = "done") =>
          rq.resp.payload.authenticated = AllThree(jar, now)

\* The status route reports authenticated to a browser that holds the three
\* cookies of a successful exchange.
C30_Witness ==
  \E rq \in Requests :
    /\ rq.route = "authStatus" /\ rq.pc = "done"
    /\ rq.resp.payload.authenticated
    /\ jar.access.value = UserTok(1)
    /\ jar.refresh.value = RefreshTok(1)

====
